---------------------------- MODULE Spec2Model ----------------------------
(***************************************************************************)
(* A model of BitBucketConverter.py: the conversion of a captured 'B1'     *)
(* radio frame into a 'B0' transmit frame and an 'A8' timing command       *)
(* (b1_to_b0), and the run of main() over the frames found in a text.      *)
(*                                                                         *)
(* Strings are sequences of one-character strings.  The value of           *)
(* m.split() is a sequence of such tokens, and a payload is written as     *)
(* that sequence: the tokens of the quoted Data value, in order.           *)
(* A string made by " ".join(...) is written as the sequence of the        *)
(* joined pieces.                                                          *)
(*                                                                         *)
(* The characters of the model are the hexadecimal digits and "x"; signs,  *)
(* underscores and the other forms Python's int(s, 16) accepts are outside *)
(* this alphabet.                                                          *)
(***************************************************************************)
EXTENDS Integers, Sequences, FiniteSets

VARIABLES
  text,             \* the quoted Data values of the RfRaw fragments of the input
  opt_all,          \* options.all
  opt_repeat,       \* options.repeat
  pc,               \* where main() is
  matches,          \* B1_RE.findall(text)
  idx,              \* the position of the running for loop in matches
  data_sections,    \* the list the first loop builds
  most_common_data, \* counter.most_common(1)[0][0]
  called,           \* the positions in matches handed to b1_to_b0, in order
  ret,              \* what the last call of b1_to_b0 returned or raised
  printed,          \* the B0 / A8 pairs written to stdout, in order
  stderr            \* the message or traceback the run ends with

vars == <<text, opt_all, opt_repeat, pc, matches, idx, data_sections,
          most_common_data, called, ret, printed, stderr>>

-----------------------------------------------------------------------------
(* Characters and hexadecimal text                                         *)

HexChars == <<"0", "1", "2", "3", "4", "5", "6", "7",
              "8", "9", "A", "B", "C", "D", "E", "F">>

LowerChars == <<"0", "1", "2", "3", "4", "5", "6", "7",
                "8", "9", "a", "b", "c", "d", "e", "f">>

Range(s) == {s[i] : i \in 1..Len(s)}

\* str.upper() of one character
UpperChar(c) ==
  IF \E v \in 1..16 : LowerChars[v] = c
    THEN HexChars[CHOOSE v \in 1..16 : LowerChars[v] = c]
    ELSE c

\* str.upper()
Upper(s) == [i \in 1..Len(s) |-> UpperChar(s[i])]

\* the value of one hexadecimal digit
DigitVal(c) == (CHOOSE v \in 1..16 : HexChars[v] = UpperChar(c)) - 1

\* int(s, 16) strips an optional 0x / 0X prefix
HexBody(s) ==
  IF Len(s) >= 2 /\ s[1] = "0" /\ s[2] \in {"x", "X"}
    THEN SubSeq(s, 3, Len(s))
    ELSE s

\* whether int(s, 16) returns (otherwise it raises ValueError)
IsHex(s) ==
  /\ HexBody(s) # <<>>
  /\ \A i \in 1..Len(HexBody(s)) : UpperChar(HexBody(s)[i]) \in Range(HexChars)

RECURSIVE HexValFrom(_, _)
HexValFrom(s, n) ==
  IF n = 0 THEN 0 ELSE 16 * HexValFrom(s, n - 1) + DigitVal(s[n])

\* int(s, 16) of a short token, as a number
HexVal(s) == HexValFrom(HexBody(s), Len(HexBody(s)))

RECURSIVE HexDigits(_)
HexDigits(v) ==
  IF v < 16 THEN <<HexChars[v + 1]>>
  ELSE HexDigits(v \div 16) \o <<HexChars[(v % 16) + 1]>>

\* f"{v:02X}": at least two digits, more when the value needs them
Fmt02X(v) == IF v < 16 THEN <<"0">> \o HexDigits(v) ELSE HexDigits(v)

\* f"{v:X}"
FmtX(v) == HexDigits(v)

RECURSIVE JoinRange(_, _, _)
JoinRange(ss, lo, hi) ==
  IF lo > hi THEN <<>>
  ELSE IF lo = hi THEN ss[lo]
  ELSE JoinRange(ss, lo, (lo + hi) \div 2)
         \o JoinRange(ss, (lo + hi) \div 2 + 1, hi)

\* "".join(ss)
Join(ss) == JoinRange(ss, 1, Len(ss))

\* [s[i:i+2] for i in range(0, len(s), 2)]
Pairs(s) ==
  [k \in 1..((Len(s) + 1) \div 2) |->
     SubSeq(s, 2 * k - 1, IF 2 * k <= Len(s) THEN 2 * k ELSE Len(s))]

\* the start of the run of "x" that position i of s lies in
RunStart(s, i) ==
  CHOOSE a \in 1..i :
    /\ \A j \in a..i : s[j] = "x"
    /\ a = 1 \/ s[a - 1] # "x"

\* whether s.replace("xx", ...) replaces the two characters from position i:
\* the occurrences are taken from the left and do not overlap
MatchAt(s, i) ==
  /\ i < Len(s)
  /\ s[i] = "x"
  /\ s[i + 1] = "x"
  /\ (i - RunStart(s, i)) % 2 = 0

\* s.replace("xx", new)
Replace_xx(s, new) ==
  Join([i \in 1..Len(s) |->
          IF MatchAt(s, i) THEN new
          ELSE IF i > 1 /\ MatchAt(s, i - 1) THEN <<>>
          ELSE <<s[i]>>])

-----------------------------------------------------------------------------
(* Python's int / int and float * int.  A double is written [m, k]: the    *)
(* numeral m (its bits, most significant first, no leading zero) times     *)
(* 2^(-k).  The integers divided are below 2^23: the tokens read as bit    *)
(* times have at most five digits in the inputs of the model.              *)

MantissaBits == 53

\* digits of base 256 taken from a quotient before it is rounded
QuotientDigits == 10

StripZeros(b) ==
  IF \A i \in 1..Len(b) : b[i] = 0 THEN <<>>
  ELSE SubSeq(b, CHOOSE k \in 1..Len(b) :
                    b[k] = 1 /\ \A j \in 1..(k - 1) : b[j] = 0, Len(b))

PadTo(b, n) ==
  [i \in 1..n |-> IF i <= n - Len(b) THEN 0 ELSE b[i - (n - Len(b))]]

\* the eight bits of a digit of base 256
ByteBits(d) ==
  <<d \div 128, (d \div 64) % 2, (d \div 32) % 2, (d \div 16) % 2,
    (d \div 8) % 2, (d \div 4) % 2, (d \div 2) % 2, d % 2>>

\* the digit of base 256 that eight bits stand for
ByteVal(b) ==
  128 * b[1] + 64 * b[2] + 32 * b[3] + 16 * b[4] + 8 * b[5] + 4 * b[6]
    + 2 * b[7] + b[8]

\* the bits of a numeral given by its digits of base 256
DigitsToBits(ds) == StripZeros(Join([i \in 1..Len(ds) |-> ByteBits(ds[i])]))

\* the digits of base 256 of a numeral given by its bits
BitsToDigits(b) ==
  LET n == (Len(b) + 7) \div 8
      p == PadTo(b, 8 * n)
  IN [i \in 1..n |-> ByteVal(SubSeq(p, 8 * i - 7, 8 * i))]

\* b + 1
Increment(b) ==
  IF \A i \in 1..Len(b) : b[i] = 1
    THEN <<1>> \o [i \in 1..Len(b) |-> 0]
    ELSE LET z == CHOOSE i \in 1..Len(b) :
                    b[i] = 0 /\ \A j \in (i + 1)..Len(b) : b[j] = 1
         IN [i \in 1..Len(b) |-> IF i < z THEN b[i] ELSE IF i = z THEN 1 ELSE 0]

\* Round a numeral to MantissaBits significant bits, to nearest, ties to
\* even; sticky says that a nonzero part below the numeral was cut already.
\* The result stands for m * 2^shift.
RoundBits(p, sticky) ==
  IF Len(p) <= MantissaBits THEN [m |-> p, shift |-> 0]
  ELSE LET keep == SubSeq(p, 1, MantissaBits)
           guard == p[MantissaBits + 1]
           rest == sticky \/ \E i \in (MantissaBits + 2)..Len(p) : p[i] = 1
           up == guard = 1 /\ (rest \/ keep[MantissaBits] = 1)
       IN [m |-> IF up THEN Increment(keep) ELSE keep,
           shift |-> Len(p) - MantissaBits]

\* long division: the first n digits of base 256 of h / t behind the point,
\* and the remainder
RECURSIVE DivDigits(_, _, _)
DivDigits(h, t, n) ==
  IF n = 0 THEN [q |-> <<>>, r |-> h]
  ELSE LET d == DivDigits(h, t, n - 1)
       IN [q |-> Append(d.q, (d.r * 256) \div t), r |-> (d.r * 256) % t]

\* h / t for integers 0 < h < t: the double nearest to the quotient
TrueDivide(h, t) ==
  LET d == DivDigits(h, t, QuotientDigits)
      rd == RoundBits(DigitsToBits(d.q), d.r # 0)
  IN [m |-> rd.m, k |-> 8 * QuotientDigits - rd.shift]

\* the digits of base 256 of ds * 100, from digit n of ds down, and the carry
RECURSIVE MulDigits(_, _)
MulDigits(ds, n) ==
  IF n > Len(ds) THEN [q |-> <<>>, c |-> 0]
  ELSE LET low == MulDigits(ds, n + 1)
           v == ds[n] * 100 + low.c
       IN [q |-> <<v % 256>> \o low.q, c |-> v \div 256]

\* x * 100 for a double x: the double nearest to the product
Times100(x) ==
  LET p == MulDigits(BitsToDigits(x.m), 1)
      rd == RoundBits(DigitsToBits(<<p.c>> \o p.q), FALSE)
  IN [m |-> rd.m, k |-> x.k - rd.shift]

\* int(x) for a double x >= 0 below 256 with k >= 0: truncation
FloatToInt(x) ==
  IF Len(x.m) <= x.k THEN 0
  ELSE ByteVal(PadTo(SubSeq(x.m, 1, Len(x.m) - x.k), 8))

\* int((val / total) * 100) for integers 0 <= val <= total, total > 0
Percent(val, total) ==
  IF val = 0 THEN 0
  ELSE IF val = total THEN 100
  ELSE FloatToInt(Times100(TrueDivide(val, total)))

-----------------------------------------------------------------------------
(* b1_to_b0                                                                *)

Tok_AA == <<"A", "A">>
Tok_B0 == <<"B", "0">>
Tok_B1 == <<"B", "1">>
Tok_A8 == <<"A", "8">>
Tok_7F == <<"7", "F">>
Tok_55 == <<"5", "5">>
Tok_xx == <<"x", "x">>
Tok_32 == <<"3", "2">>
Nibble0 == <<"1", "2">>
Nibble1 == <<"2", "1">>

\* the test that makes b1_to_b0 return None
NotB1(parts) == Len(parts) < 4 \/ Upper(parts[2]) # Tok_B1

num_buckets(parts) == HexVal(parts[3])

data_section(parts) == parts[4 + num_buckets(parts)]

b0_parts(parts, repeat_val) ==
  <<Tok_AA, Tok_B0, Tok_xx, parts[3], Fmt02X(repeat_val)>>
    \o SubSeq(parts, 4, 3 + num_buckets(parts))
    \o <<data_section(parts), parts[5 + num_buckets(parts)]>>

length(parts, repeat_val) == Len(Join(b0_parts(parts, repeat_val))) \div 2 - 4

b0_str(parts, repeat_val) ==
  Replace_xx(Join(b0_parts(parts, repeat_val)),
             Fmt02X(length(parts, repeat_val)))

b0_formatted(parts, repeat_val) == Pairs(b0_str(parts, repeat_val))

str_middle(ds) == SubSeq(ds, 2, Len(ds) - 1)

nibbles(ds) == Pairs(str_middle(ds))

\* what the loop of lines 62-66 appends for one nibble
Decoded(nibble) ==
  IF nibble = Nibble0 THEN <<"0">>
  ELSE IF nibble = Nibble1 THEN <<"1">>
  ELSE <<>>

bits(ds) == Join([n \in 1..Len(nibbles(ds)) |-> Decoded(nibbles(ds)[n])])

BitChar(c) == IF c = "1" THEN 1 ELSE 0

\* int(bit_group, 2) of bits[i:i+4]
GroupVal(b, i) ==
  8 * BitChar(b[i + 1]) + 4 * BitChar(b[i + 2]) + 2 * BitChar(b[i + 3])
    + BitChar(b[i + 4])

\* Packed with the last, incomplete group filled with zero bits
Packed_padded(b, g) ==
  LET p == b \o <<"0", "0", "0">>
  IN IF 4 * g < Len(b) THEN FmtX(GroupVal(p, 4 * g)) ELSE <<>>

\* one turn of the loop of lines 70-73, for i = 4 * g
Packed(b, g) == IF 4 * g + 3 < Len(b) THEN FmtX(GroupVal(b, 4 * g)) ELSE <<>>

hex_data(b) == Join([g \in 1..((Len(b) + 3) \div 4) |-> Packed(b, g - 1)])

sync_high(parts) == parts[7]
sync_low(parts) == parts[4]
bit_high_time(parts) == parts[6]
bit_low_time(parts) == parts[5]

high_val(parts) == HexVal(bit_high_time(parts))
low_val(parts) == HexVal(bit_low_time(parts))
total(parts) == high_val(parts) + low_val(parts)

bit_high_duty(parts) ==
  IF total(parts) > 0
    THEN Fmt02X(Percent(high_val(parts), total(parts)))
    ELSE Tok_32

bit_low_duty(parts) ==
  IF total(parts) > 0
    THEN Fmt02X(Percent(low_val(parts), total(parts)))
    ELSE Tok_32

bit_count(ds) == Len(bits(ds))

a8_data(parts) ==
  <<Tok_7F, sync_high(parts), sync_low(parts), bit_high_time(parts),
    bit_high_duty(parts), bit_low_time(parts), bit_low_duty(parts),
    Fmt02X(bit_count(data_section(parts))),
    hex_data(bits(data_section(parts)))>>

a8_len(a8) == Len(Join(a8)) \div 2

\* the pieces of f"AA A8 {a8_len:02X} {a8_formatted} 55" between the spaces
a8_command(parts) ==
  LET a8 == a8_data(parts)
  IN <<Tok_AA, Tok_A8, Fmt02X(a8_len(a8))>> \o a8 \o <<Tok_55>>

NoDebug == [bits |-> <<>>, hex_data |-> <<>>, bit_count |-> 0]

Returned(kind, exc, line, b0, a8, debug) ==
  [ret |-> kind, exc |-> exc, line |-> line, b0 |-> b0, a8 |-> a8,
   debug |-> debug]

\* b1_to_b0(" ".join(parts), repeat_val): what it returns, or the exception
\* it raises and the line that raises it
b1_to_b0(parts, repeat_val) ==
  IF NotB1(parts)
    THEN Returned("None", "", 25, <<>>, <<>>, NoDebug)
  ELSE IF ~IsHex(parts[3])
    THEN Returned("raise", "ValueError", 28, <<>>, <<>>, NoDebug)
  ELSE IF Len(parts) < 3 + num_buckets(parts)
    THEN Returned("raise", "IndexError", 36, <<>>, <<>>, NoDebug)
  ELSE IF Len(parts) < 4 + num_buckets(parts)
    THEN Returned("raise", "IndexError", 39, <<>>, <<>>, NoDebug)
  ELSE IF Len(parts) < 5 + num_buckets(parts)
    THEN Returned("raise", "IndexError", 41, <<>>, <<>>, NoDebug)
  ELSE IF Len(parts) < 7
    THEN Returned("raise", "IndexError", 76, <<>>, <<>>, NoDebug)
  ELSE IF ~IsHex(bit_high_time(parts))
    THEN Returned("raise", "ValueError", 82, <<>>, <<>>, NoDebug)
  ELSE IF ~IsHex(bit_low_time(parts))
    THEN Returned("raise", "ValueError", 83, <<>>, <<>>, NoDebug)
  ELSE Returned("ok", "", 130, b0_formatted(parts, repeat_val),
                a8_command(parts),
                [bits |-> bits(data_section(parts)),
                 hex_data |-> hex_data(bits(data_section(parts))),
                 bit_count |-> bit_count(data_section(parts))])

-----------------------------------------------------------------------------
(* main                                                                    *)

\* B1_RE matches a quoted value that holds "B1" in either case
ContainsB1(m) ==
  \E t \in 1..Len(m) : \E i \in 1..(Len(m[t]) - 1) :
    m[t][i] \in {"B", "b"} /\ m[t][i + 1] = "1"

\* B1_RE.findall(text): the matching values, in order of appearance
B1_RE_findall(t) == SelectSeq(t, ContainsB1)

\* the test of the first loop of the default mode
Counted(parts) ==
  /\ Len(parts) >= 4
  /\ Upper(parts[2]) = Tok_B1
  /\ Len(parts) > 3 + num_buckets(parts)

\* the test of the second loop of the default mode
Carries(parts, data) ==
  /\ Len(parts) >= 4
  /\ Len(parts) > 3 + num_buckets(parts)
  /\ parts[4 + num_buckets(parts)] = data

Occurrences(ds, v) == Cardinality({i \in 1..Len(ds) : ds[i] = v})

\* most_common with the last inserted among equal counts
most_common_last(ds) ==
  ds[CHOOSE k \in 1..Len(ds) :
       /\ \A j \in 1..Len(ds) : Occurrences(ds, ds[j]) <= Occurrences(ds, ds[k])
       /\ \A j \in (k + 1)..Len(ds) :
            Occurrences(ds, ds[j]) < Occurrences(ds, ds[k])]

\* Counter(ds).most_common(1)[0][0]: the largest count, the first inserted
\* among equal counts
most_common(ds) ==
  ds[CHOOSE k \in 1..Len(ds) :
       /\ \A j \in 1..Len(ds) : Occurrences(ds, ds[j]) <= Occurrences(ds, ds[k])
       /\ \A j \in 1..(k - 1) : Occurrences(ds, ds[j]) < Occurrences(ds, ds[k])]

NoCall == Returned("", "", 0, <<>>, <<>>, NoDebug)

\* how a run ends on stderr: the message, the line that wrote or raised it,
\* and the position in matches of the payload it was raised on (0: none)
Stderr(msg, line, frame) == [msg |-> msg, line |-> line, frame |-> frame]

NoStderr == Stderr("", 0, 0)

Trace(r, i) == Stderr(r.exc, r.line, i)

\* the print statements that follow a call of b1_to_b0 on matches[i]
Emit(out, i, r) ==
  IF r.ret = "ok" THEN Append(out, [frame |-> i, b0 |-> r.b0, a8 |-> r.a8])
  ELSE out

FindAll ==
  /\ pc = "findall"
  /\ matches' = B1_RE_findall(text)
  /\ IF matches' = <<>>
       THEN /\ stderr' = Stderr("No B1 frames found.", 158, 0)
            /\ pc' = "exit1"
       ELSE /\ stderr' = stderr
            /\ pc' = IF opt_all THEN "all" ELSE "count"
  /\ UNCHANGED <<text, opt_all, opt_repeat, idx, data_sections,
                 most_common_data, called, ret, printed>>

\* one turn of the loop of lines 164-174
AllFrame ==
  /\ pc = "all"
  /\ idx <= Len(matches)
  /\ LET r == b1_to_b0(matches[idx], opt_repeat)
     IN /\ called' = Append(called, idx)
        /\ ret' = r
        /\ printed' = Emit(printed, idx, r)
        /\ IF r.ret = "raise"
             THEN /\ pc' = "raised"
                  /\ stderr' = Trace(r, idx)
                  /\ idx' = idx
             ELSE /\ pc' = IF idx = Len(matches) THEN "done" ELSE "all"
                  /\ stderr' = stderr
                  /\ idx' = idx + 1
  /\ UNCHANGED <<text, opt_all, opt_repeat, matches, data_sections,
                 most_common_data>>

\* one turn of the loop of lines 178-184
CountFrame ==
  /\ pc = "count"
  /\ idx <= Len(matches)
  /\ LET parts == matches[idx]
     IN IF Len(parts) >= 4 /\ Upper(parts[2]) = Tok_B1 /\ ~IsHex(parts[3])
          THEN /\ pc' = "raised"
               /\ stderr' = Stderr("ValueError", 181, idx)
               /\ UNCHANGED <<idx, data_sections>>
          ELSE /\ data_sections' =
                    IF Counted(parts)
                      THEN Append(data_sections, data_section(parts))
                      ELSE data_sections
               /\ idx' = idx + 1
               /\ UNCHANGED <<pc, stderr>>
  /\ UNCHANGED <<text, opt_all, opt_repeat, matches, most_common_data,
                 called, ret, printed>>

\* lines 186-189
MostCommon ==
  /\ pc = "count"
  /\ idx > Len(matches)
  /\ data_sections # <<>>
  /\ most_common_data' = most_common(data_sections)
  /\ pc' = "find"
  /\ idx' = 1
  /\ UNCHANGED <<text, opt_all, opt_repeat, matches, data_sections, called,
                 ret, printed, stderr>>

\* one turn of the loop of lines 192-207
FindFrame ==
  /\ pc = "find"
  /\ idx <= Len(matches)
  /\ LET parts == matches[idx]
         r == b1_to_b0(parts, opt_repeat)
     IN IF Len(parts) >= 4 /\ ~IsHex(parts[3])
          THEN /\ pc' = "raised"
               /\ stderr' = Stderr("ValueError", 195, idx)
               /\ UNCHANGED <<idx, called, ret, printed>>
          ELSE IF Carries(parts, most_common_data)
            THEN /\ called' = Append(called, idx)
                 /\ ret' = r
                 /\ printed' = Emit(printed, idx, r)
                 /\ pc' = IF r.ret = "raise" THEN "raised" ELSE "done"
                 /\ stderr' = IF r.ret = "raise" THEN Trace(r, idx) ELSE stderr
                 /\ idx' = idx
            ELSE /\ idx' = idx + 1
                 /\ UNCHANGED <<pc, called, ret, printed, stderr>>
  /\ UNCHANGED <<text, opt_all, opt_repeat, matches, data_sections,
                 most_common_data>>

\* lines 208-217
Fallback ==
  /\ pc = "count"
  /\ idx > Len(matches)
  /\ data_sections = <<>>
  /\ LET r == b1_to_b0(matches[1], opt_repeat)
     IN /\ called' = Append(called, 1)
        /\ ret' = r
        /\ printed' = Emit(printed, 1, r)
        /\ pc' = IF r.ret = "raise" THEN "raised" ELSE "done"
        /\ stderr' = IF r.ret = "raise" THEN Trace(r, 1) ELSE stderr
  /\ UNCHANGED <<text, opt_all, opt_repeat, matches, idx, data_sections,
                 most_common_data>>

Next == FindAll \/ AllFrame \/ CountFrame \/ MostCommon \/ FindFrame \/ Fallback

-----------------------------------------------------------------------------
(* The inputs of the runs                                                  *)

MaxFrames == 3

DefaultRepeat == 20

Bucket0 == <<"0", "1", "2", "C">>
Bucket1 == <<"0", "0", "C", "8">>
Bucket2 == <<"0", "1", "9", "0">>
Bucket3 == <<"0", "0", "9", "6">>
Tok_04 == <<"0", "4">>
DataA == <<"0", "1", "0", "2">>
DataB == <<"0", "1", "0", "3">>
DataC == <<"9", "9", "9", "9">>

Frame(marker, n, data) ==
  <<Tok_AA, marker, n, Bucket0, Bucket1, Bucket2, Bucket3, data, Tok_55>>

FrameA == Frame(Tok_B1, Tok_04, DataA)
FrameB == Frame(Tok_B1, Tok_04, DataB)
FrameC == Frame(Tok_B1, Tok_04, DataC)
\* a B1 payload that ends with its data token
NoTrailer == SubSeq(Frame(<<"b", "1">>, Tok_04, DataB), 1, 8)
\* a B1 payload that ends inside its bucket table
Short == SubSeq(FrameA, 1, 4)
\* a B1 payload whose bucket count is no number
NonHex == Frame(Tok_B1, Tok_xx, DataA)
\* a payload that B1_RE matches and whose second token is not B1
OtherB1 ==
  <<Tok_AA, Tok_B0, Tok_04, Bucket0, Bucket1, Bucket2, Bucket3, DataA, Tok_B1>>
\* a payload that B1_RE does not match
NoB1 == Frame(Tok_B0, Tok_04, DataA)

Payloads == {FrameA, FrameB, FrameC, NoTrailer, Short, NonHex, OtherB1, NoB1}

Texts == UNION {[1..n -> Payloads] : n \in 0..MaxFrames}

Init ==
  /\ text \in Texts
  /\ opt_all \in BOOLEAN
  /\ opt_repeat = DefaultRepeat
  /\ pc = "findall"
  /\ matches = <<>>
  /\ idx = 1
  /\ data_sections = <<>>
  /\ most_common_data = <<>>
  /\ called = <<>>
  /\ ret = NoCall
  /\ printed = <<>>
  /\ stderr = NoStderr

Spec == Init /\ [][Next]_vars

-----------------------------------------------------------------------------
(* b1_to_b0 alone, on one frame                                            *)

MaxNibbles == 8
MaxNoisy == 4
MaxTick == 29
MaxBuckets == 5
Slack == 2

Repeats == {0, DefaultRepeat, 255}

SeqsUpTo(S, n) == UNION {[1..k -> S] : k \in 0..n}

\* a four digit bucket token of the value v < 256
Tick(v) == <<"0", "0">> \o Fmt02X(v)

\* data sections: a first character, nibbles, and one or two last characters
NibbleData(ns, last) == <<"3">> \o Join(ns) \o last

DataSections ==
  {NibbleData(ns, last) :
     ns \in SeqsUpTo({Nibble0, Nibble1}, MaxNibbles)
              \cup SeqsUpTo({Nibble0, Nibble1, <<"1", "A">>}, MaxNoisy),
     last \in {<<"5">>, <<"1", "5">>}}
  \cup {<<"5">>, <<"1", "2">>}

DataFrames == {Frame(<<"b", "1">>, Tok_04, d) : d \in DataSections}

DataBits == NibbleData(<<Nibble1, Nibble0, Nibble1, Nibble1>>, <<"5">>)

\* frames over the bit times high and low
DutyFrames ==
  {<<Tok_AA, Tok_B1, Tok_04, Bucket0, Tick(low), Tick(high), Bucket3,
     DataBits, Tok_55>> : high \in 0..MaxTick, low \in 0..MaxTick}

\* frames of n buckets, cut after any token or followed by one more token
CountFrame_full(n) ==
  <<Tok_AA, Tok_B1, Fmt02X(n)>> \o [i \in 1..n |-> Tick(40 * i)]
    \o <<<<"3", "2", "1", "5">>, Tok_55, Tok_55>>

CountFrames ==
  UNION {{SubSeq(CountFrame_full(n), 1, k) : k \in 1..(n + 6)} :
           n \in 0..MaxBuckets}

\* frames whose B0 length is around the largest value of one byte
LongFrames ==
  {Frame(Tok_B1, Tok_04, NibbleData([i \in 1..(len - 11) |-> Nibble1], <<"5">>)) :
     len \in (255 - Slack)..(255 + Slack)}

CodecInputs ==
  ((DataFrames \cup DutyFrames \cup LongFrames) \X {DefaultRepeat})
    \cup (CountFrames \X Repeats)

InitCodec ==
  /\ \E c \in CodecInputs : text = <<c[1]>> /\ opt_repeat = c[2]
  /\ opt_all = FALSE
  /\ pc = "convert"
  /\ matches = <<>>
  /\ idx = 1
  /\ data_sections = <<>>
  /\ most_common_data = <<>>
  /\ called = <<>>
  /\ ret = NoCall
  /\ printed = <<>>
  /\ stderr = NoStderr

\* one call b1_to_b0(text[1], opt_repeat)
Convert ==
  /\ pc = "convert"
  /\ LET r == b1_to_b0(text[1], opt_repeat)
     IN /\ ret' = r
        /\ called' = <<1>>
        /\ printed' = Emit(printed, 1, r)
        /\ pc' = IF r.ret = "raise" THEN "raised" ELSE "done"
        /\ stderr' = IF r.ret = "raise" THEN Trace(r, 1) ELSE stderr
  /\ matches' = text
  /\ UNCHANGED <<text, opt_all, opt_repeat, idx, data_sections,
                 most_common_data>>

SpecCodec == InitCodec /\ [][Convert]_vars

-----------------------------------------------------------------------------
(* What the claims speak of                                                *)

\* a valid B1 frame: at least 4 tokens, the second one B1, a hexadecimal
\* bucket count, and at least 3 + bucket_count + 2 tokens
ValidB1(parts) ==
  /\ Len(parts) >= 4
  /\ Upper(parts[2]) = Tok_B1
  /\ IsHex(parts[3])
  /\ Len(parts) >= 3 + HexVal(parts[3]) + 2

\* a payload tagged B1 that is no valid B1 frame
InvalidB1(parts) ==
  /\ Len(parts) >= 2
  /\ Upper(parts[2]) = Tok_B1
  /\ ~ValidB1(parts)

\* the data_section token of a valid B1 frame
DataOf(parts) == parts[4 + HexVal(parts[3])]

ValidAt(ms) == {i \in 1..Len(ms) : ValidB1(ms[i])}

\* how many valid candidates of ms carry the data_section d
Frequency(ms, d) == Cardinality({i \in ValidAt(ms) : DataOf(ms[i]) = d})

\* the characters of a payload, its tokens one space apart
Raw(parts) ==
  Join([k \in 1..(2 * Len(parts) - 1) |->
          IF k % 2 = 1 THEN parts[(k + 1) \div 2] ELSE <<" ">>])

\* the number of positions at which two payloads hold the same character
Agreement(a, b) ==
  Cardinality({p \in 1..Len(Raw(a)) :
                 p <= Len(Raw(b)) /\ Raw(a)[p] = Raw(b)[p]})

RECURSIVE ScoreFrom(_, _, _)
ScoreFrom(ms, i, n) ==
  IF n = 0 THEN 0
  ELSE ScoreFrom(ms, i, n - 1)
         + (IF n # i /\ n \in ValidAt(ms) THEN Agreement(ms[i], ms[n]) ELSE 0)

\* the similarity score of candidate i: its agreement with every other one
Score(ms, i) == ScoreFrom(ms, i, Len(ms))

\* the candidate of the largest score, the first seen among equal scores
MostSimilar(ms) ==
  CHOOSE i \in ValidAt(ms) :
    /\ \A j \in ValidAt(ms) : Score(ms, j) <= Score(ms, i)
    /\ \A j \in ValidAt(ms) : j < i => Score(ms, j) < Score(ms, i)

Ended == pc \in {"done", "raised", "exit1"}

-----------------------------------------------------------------------------
(* C1 *)

CountedAt(ms) == {i \in 1..Len(ms) : Counted(ms[i])}

-----------------------------------------------------------------------------
(* C2 *)

\* C2: in the default mode, when some data_section occurs in more than one
\* valid B1 candidate, the frame handed to the encoders is a valid candidate
\* whose data_section is a most frequent one, and it is the first valid
\* candidate in order of appearance with that data_section.
C2_Mode ==
  (/\ ~opt_all
   /\ called # <<>>
   /\ \E i \in ValidAt(matches) : Frequency(matches, DataOf(matches[i])) > 1)
    => LET f == matches[called[1]]
       IN /\ ValidB1(f)
          /\ \A j \in ValidAt(matches) :
               Frequency(matches, DataOf(matches[j]))
                 <= Frequency(matches, DataOf(f))
          /\ \A j \in ValidAt(matches) :
               j < called[1] => DataOf(matches[j]) # DataOf(f)

-----------------------------------------------------------------------------
(* C4 *)

\* C4: a payload tagged B1 that is no valid B1 frame (too few tokens, or a
\* bucket count that is no hexadecimal number) is dropped silently in both
\* modes: it is never handed to b1_to_b0, no exception is raised on it, and
\* in the emit_all mode every valid frame of the same input is converted.
C4_DroppedSilently ==
  /\ \A k \in 1..Len(called) : ~InvalidB1(matches[called[k]])
  /\ stderr.frame # 0 => ~InvalidB1(matches[stderr.frame])
  /\ (opt_all /\ Ended) =>
       \A i \in ValidAt(matches) : \E k \in 1..Len(printed) : printed[k].frame = i

-----------------------------------------------------------------------------
(* C5 *)

\* C5: on a valid B1 frame of fewer than 4 buckets the conversion fails: no
\* A8 command is emitted (none whose sync or bit time fields are the data
\* section or the trailer).
C5_FewBuckets ==
  (/\ pc # "convert"
   /\ ValidB1(text[1])
   /\ HexVal(text[1][3]) < 4)
    => ret.ret = "raise" /\ printed = <<>>

-----------------------------------------------------------------------------
(* C6 *)

\* the positions n of the 2-character tokens of the interior of ds (the
\* characters 2n and 2n + 1 of ds, both before its last character) that
\* stand for a bit
BitTokens(ds) ==
  {n \in 1..(Len(ds) \div 2) :
     /\ 2 * n + 1 < Len(ds)
     /\ <<ds[2 * n], ds[2 * n + 1]>> \in {<<"1", "2">>, <<"2", "1">>}}

\* C6: the bits decoded from a data_section are, in order, one bit per
\* interior token "12" (0) or "21" (1), every other token skipped; bit_count
\* is their number; hex_data has floor(bit_count / 4) digits, digit g being
\* the value of the bits 4g-3 .. 4g, so that a last group of 1-3 bits is
\* discarded; the A8 command carries this bit_count and hex_data.
C6_DecodePack ==
  ret.ret = "ok" =>
    LET ds == DataOf(text[1])
        b == ret.debug.bits
        h == ret.debug.hex_data
    IN /\ Len(b) = Cardinality(BitTokens(ds))
       /\ ret.debug.bit_count = Len(b)
       /\ \A n \in BitTokens(ds) :
            b[Cardinality({m \in BitTokens(ds) : m <= n})]
              = (IF ds[2 * n] = "2" THEN "1" ELSE "0")
       /\ Len(h) = Len(b) \div 4
       /\ \A g \in 1..Len(h) :
            h[g] = HexChars[1 + 8 * BitChar(b[4 * g - 3]) + 4 * BitChar(b[4 * g - 2])
                              + 2 * BitChar(b[4 * g - 1]) + BitChar(b[4 * g])]
       /\ ret.a8[Len(ret.a8) - 1] = h
       /\ ret.a8[Len(ret.a8) - 2] = Fmt02X(Len(b))

\* the interior 1221122112211221 is converted, and hex_data is 55
C6_Witness ==
  /\ pc = "done"
  /\ ret.ret = "ok"
  /\ DataOf(text[1])
       = <<"3", "1", "2", "2", "1", "1", "2", "2", "1",
           "1", "2", "2", "1", "1", "2", "2", "1", "5">>
  /\ ret.debug.hex_data = <<"5", "5">>

-----------------------------------------------------------------------------
(* C7 *)

\* C7: when the input holds no valid B1 frame, the run ends with the
\* no-candidates error and prints no B0 and no A8 string, whether the
\* extractor found nothing or found only invalid payloads.
C7_NoCandidates ==
  (Ended /\ \A i \in 1..Len(text) : ~ValidB1(text[i]))
    => /\ pc = "exit1"
       /\ stderr.msg = "No B1 frames found."
       /\ printed = <<>>

-----------------------------------------------------------------------------
(* C8 *)

\* C8: for a valid frame of at least 4 buckets, with high_val and low_val
\* the values of buckets[2] and buckets[1] and total their sum: both duty
\* bytes are 32 when total = 0, and otherwise they are floor(100 * high_val
\* / total) and floor(100 * low_val / total) as 2-digit hex bytes.
C8_Duty ==
  (ret.ret = "ok" /\ ValidB1(text[1]) /\ HexVal(text[1][3]) >= 4) =>
    LET high == HexVal(text[1][6])
        low == HexVal(text[1][5])
    IN IF high + low = 0
         THEN ret.a8[8] = Tok_32 /\ ret.a8[10] = Tok_32
         ELSE /\ ret.a8[8] = Fmt02X((100 * high) \div (high + low))
              /\ ret.a8[10] = Fmt02X((100 * low) \div (high + low))

-----------------------------------------------------------------------------
(* C9 *)

\* C9: the A8 command is AA A8 <length>, the payload 7F sync_high sync_low
\* bit_high_time duty_high bit_low_time duty_low bit_count hex_data, and 55,
\* and <length> is exactly half the number of hex characters of the payload.
C9_Length ==
  ret.ret = "ok" =>
    LET a == ret.a8
        payload == SubSeq(a, 4, Len(a) - 1)
    IN /\ Len(a) = 13
       /\ a[1] = Tok_AA /\ a[2] = Tok_A8 /\ a[13] = Tok_55
       /\ payload[1] = Tok_7F
       /\ payload[2] = text[1][7] /\ payload[3] = text[1][4]
       /\ payload[4] = text[1][6] /\ payload[6] = text[1][5]
       /\ payload[9] = ret.debug.hex_data
       /\ 2 * HexVal(a[3]) = Len(Join(payload))

-----------------------------------------------------------------------------
(* C10 *)

\* C10: in the default mode, when the payloads found hold a valid B1
\* candidate, the payload the second loop hands to b1_to_b0 has B1 as its
\* second token and is a valid candidate, and a run that ends normally has
\* printed exactly one B0 / A8 pair.
C10_SecondPass ==
  (/\ ~opt_all
   /\ called # <<>>
   /\ ValidAt(matches) # {})
    => /\ Upper(matches[called[1]][2]) = Tok_B1
       /\ pc = "done" => Len(printed) = 1

-----------------------------------------------------------------------------
(* C3 *)

\* every token is a whole number of bytes, as the data model has it for the
\* bucket count, the buckets, the data_section and the trailer
WholeBytes(parts) == \A t \in 1..Len(parts) : Len(parts[t]) % 2 = 0

\* C3: for a valid B1 frame of whole bytes and a repeat value of one byte, the
\* third byte of the B0 output is the length byte: twice (its value + 4) is
\* the number of hex characters of the emitted string, and the emitted string
\* is the assembled one with only the two placeholder characters replaced.
C3_LengthByte ==
  (ret.ret = "ok" /\ ValidB1(text[1]) /\ WholeBytes(text[1])
     /\ opt_repeat <= 255) =>
    LET out == Join(ret.b0)
        assembled == Join(b0_parts(text[1], opt_repeat))
    IN /\ 2 * (HexVal(ret.b0[3]) + 4) = Len(out)
       /\ Len(out) = Len(assembled)
       /\ \A p \in 1..Len(out) : p \notin {5, 6} => out[p] = assembled[p]

=============================================================================
